---- MODULE Spec2Model ----
(***************************************************************************)
(* Attendance lifecycle and session workflow of src/index.tsx.             *)
(*                                                                         *)
(* The React state of AppProvider (users, attendance, inventory,           *)
(* loggedInUser, loading, error), the component state of LoginScreen       *)
(* (selectedUserId) and MainLayout (page), the module-level array          *)
(* mockAttendance, and the gateway calls in flight are the state.  The     *)
(* data-access layer is the constant `api` of line 144: "mock" is mockApi  *)
(* (lines 107-141), "real" is realApi (lines 46-86); both are explored.    *)
(*                                                                         *)
(* JavaScript arrays and objects are references.  mockApi.getAttendance    *)
(* resolves with the array mockAttendance itself, so after a load the      *)
(* attendance state IS that array (attendance.alias), and the elements of  *)
(* a later copy of it are still the objects mockAttendance holds           *)
(* (link > 0 names the position of that object in mockAttendance).  An     *)
(* element with link = 0 is an object of its own (a spread copy or a       *)
(* parsed JSON response).                                                  *)
(*                                                                         *)
(* Every asynchronous call takes two steps: the gateway settles the        *)
(* promise (the setTimeout callback of mockApi, the fetch of realApi),     *)
(* and later the awaiting function continues and its state update is       *)
(* applied by React.                                                       *)
(*                                                                         *)
(* Spec is the application as its controls drive it.  LiveSpec adds the    *)
(* fairness of the event loop: a pending timer or response is eventually   *)
(* handled and a queued continuation eventually runs.  SpecDirect drives   *)
(* updateAttendanceStatus with identifiers the table need not hold.        *)
(***************************************************************************)
EXTENDS Integers, Sequences, FiniteSets, TLC

\* ----------------------------------------------------------------- bounds
MaxTicks == 1       \* clock steps explored after start
MaxCalls == 3       \* markAttendance / updateAttendanceStatus calls issued
TicksPerDay == 2    \* clock instants in one calendar day
StartNow == 5       \* clock reading when the application mounts (the last instant of a day)

VARIABLES
    api,             \* "mock" | "real"                       (line 144)
    now,             \* wall clock, Date.now()
    mockAttendance,  \* module array (line 97); under "real": the server's table
    users,           \* useState<User[]>                      (line 176)
    attendance,      \* useState<Attendance[]>                (line 177)
    inventory,       \* useState<InventoryItem[]>             (line 178)
    loggedInUser,    \* useState<User | null>                 (line 179)
    loading,         \* useState(true)                        (line 180)
    error,           \* useState<string | null>, "" is null   (line 181)
    selectedUserId,  \* LoginScreen state                     (line 286)
    page,            \* MainLayout state                      (line 336)
    view,            \* controls rendered by AttendanceManagement at its last render
    inflight,        \* calls awaiting the gateway
    settled,         \* settled promises whose continuation has not run yet
    issued,          \* number of write calls issued so far
    lastAlert        \* text of the alert() raised by the last step, "" if none

vars == <<api, now, mockAttendance, users, attendance, inventory, loggedInUser,
          loading, error, selectedUserId, page, view, inflight, settled, issued,
          lastAlert>>

\* ------------------------------------------------------------- data (mock)
NoUser == [id |-> "", role |-> "none", status |-> "none"]

mockUsers ==
    << [id |-> "user-1", role |-> "admin",    status |-> "active"],
       [id |-> "user-2", role |-> "employee", status |-> "active"],
       [id |-> "user-3", role |-> "employee", status |-> "active"],
       [id |-> "user-4", role |-> "employee", status |-> "terminated"] >>

\* The two seed records are dated 2024-07-28, a day before the clock starts.
mockAttendanceSeed ==
    << [id |-> 1, userId |-> "user-2", date |-> 0, timestamp |-> 0, status |-> "approved"],
       [id |-> 2, userId |-> "user-3", date |-> 0, timestamp |-> 1, status |-> "pending"] >>

mockInventory == << "TN-001", "TN-002" >>

NoRec == [id |-> 0, userId |-> "", date |-> 0, timestamp |-> 0, status |-> "none"]

\* Values a select element can hand to onChange: the ids of the users and the
\* empty initial value, which is the id of no user.
SelectableIds == {""} \cup {mockUsers[k].id : k \in 1..Len(mockUsers)}

SuccessMsg == "Attendance marked successfully! Awaiting admin approval."
MarkFailedMsg == "Failed to mark attendance."
UpdateFailedMsg == "Failed to update status."
RecordNotFoundMsg == "Record not found"
LoginFailedMsg == "This user is terminated or does not exist."
FetchTypeErrorMsg == "Could not connect to the Google Cloud service."
FetchErrorMsg == "Failed to connect: Failed to fetch attendance"

\* ------------------------------------------------------------ pure helpers
\* new Date().toISOString().split('T')[0]: the UTC calendar day of an instant.
DateOf(t) == t \div TicksPerDay

RemoveAt(s, i) == SubSeq(s, 1, i - 1) \o SubSeq(s, i + 1, Len(s))

\* Array.prototype.find on users by id; NoUser is undefined.
FindUser(us, id) ==
    IF \E k \in 1..Len(us) : us[k].id = id
    THEN us[CHOOSE k \in 1..Len(us) :
                /\ us[k].id = id
                /\ \A j \in 1..Len(us) : us[j].id = id => k <= j]
    ELSE NoUser

\* users.find(u => u.status === 'active')?.id || ''
FirstActiveId(us) ==
    IF \E k \in 1..Len(us) : us[k].status = "active"
    THEN us[CHOOSE k \in 1..Len(us) :
                /\ us[k].status = "active"
                /\ \A j \in 1..Len(us) : us[j].status = "active" => k <= j].id
    ELSE ""

\* The elements of the array an attendance state refers to.
ArrOf(att, mock) ==
    IF att.alias
    THEN [k \in 1..Len(mock) |-> [link |-> k, rec |-> NoRec]]
    ELSE att.own

\* The object an element refers to.
Deref(e, mock) == IF e.link > 0 THEN mock[e.link] ELSE e.rec

\* The records read through an attendance state.
StoreOf(att, mock) ==
    LET arr == ArrOf(att, mock)
    IN  [k \in 1..Len(arr) |-> Deref(arr[k], mock)]

Store == StoreOf(attendance, mockAttendance)

\* ------------------------------------------------------------ view layer
\* App (lines 249-265): which screen is rendered.
MainMounted(l, e, u) == ~l /\ e = "" /\ u # NoUser
LoginMounted(l, e, u) == ~l /\ e = "" /\ u = NoUser

\* No day: the date of a view that shows none.
NoDay == -1

NoView == [markBtn |-> FALSE, reviewBtns |-> {}, today |-> NoDay, rows |-> << >>]

\* The same sort with the comparison turned round (a - b): oldest first.
SortByTimestampAsc(s) ==
    LET Rank(k) == 1 + Cardinality({j \in 1..Len(s) :
                          \/ s[j].timestamp < s[k].timestamp
                          \/ (s[j].timestamp = s[k].timestamp /\ j < k)})
    IN  [p \in 1..Len(s) |-> s[CHOOSE k \in 1..Len(s) : Rank(k) = p]]

\* [...attendance].sort((a, b) => b.timestamp - a.timestamp) (line 496): a
\* new array, newest first.  Array.prototype.sort is stable: a record comes
\* after the newer records and after the equally old ones that preceded it.
SortByTimestampDesc(s) ==
    LET Rank(k) == 1 + Cardinality({j \in 1..Len(s) :
                          \/ s[j].timestamp > s[k].timestamp
                          \/ (s[j].timestamp = s[k].timestamp /\ j < k)})
    IN  [p \in 1..Len(s) |-> s[CHOOSE k \in 1..Len(s) : Rank(k) = p]]

\* The Approve / Reject buttons of the table's rows (lines 515-527).
ReviewButtons(rows) ==
    {rows[k].id : k \in {j \in 1..Len(rows) : rows[j].status = "pending"}}

\* AttendanceManagement without its role branch: the admin table for everyone.
AttendanceManagementAnyRole(user, store, today) ==
    LET sortedAttendance == SortByTimestampDesc(store)
    IN  [markBtn |-> FALSE,
         reviewBtns |-> ReviewButtons(sortedAttendance),
         today |-> NoDay,
         rows |-> sortedAttendance]

\* AttendanceManagement (lines 474-535): the buttons it renders and, in the
\* employee's card, the date it shows (lines 476, 485).
AttendanceManagement(user, store, today) ==
    IF user.role = "employee"
    THEN [markBtn |-> ~ \E k \in 1..Len(store) :
                          store[k].userId = user.id /\ store[k].date = today,
          reviewBtns |-> {},
          today |-> today,
          rows |-> << >>]
    ELSE LET sortedAttendance == SortByTimestampDesc(store)
         IN  [markBtn |-> FALSE,
              reviewBtns |-> ReviewButtons(sortedAttendance),
              today |-> NoDay,
              rows |-> sortedAttendance]

\* What a render of the whole tree leaves on the attendance page.
Render(l, e, u, p, att, mock, t) ==
    IF MainMounted(l, e, u) /\ p = "attendance"
    THEN AttendanceManagement(u, StoreOf(att, mock), DateOf(t))
    ELSE NoView

\* Sidebar listing every page whatever the role.
NavItemsForAll(u) == {"dashboard", "employees", "attendance", "inventory", "wip"}

\* Sidebar (lines 369-378): the pages offered to a role.
NavItems(u) ==
    IF u.role = "admin"
    THEN {"dashboard", "employees", "attendance", "inventory", "wip"}
    ELSE {"dashboard", "attendance", "wip"}

\* ------------------------------------------------------------------- calls
\* today: the date of the view whose button started the call.
Call(op, userId, attId, status, today) ==
    [op |-> op, userId |-> userId, attId |-> attId, status |-> status,
     today |-> today]

Settle(c, ok, msg, elem, data, already) ==
    [op |-> c.op, userId |-> c.userId, attId |-> c.attId, status |-> c.status,
     ok |-> ok, msg |-> msg, elem |-> elem, data |-> data, alreadyMarked |-> already]

NoElem == [link |-> 0, rec |-> NoRec]
NoData == [alias |-> FALSE, own |-> << >>]

\* mockApi resolves its timers in the order they were set (all 500 ms);
\* fetch responses arrive in any order.  The continuation of a settled call
\* is already queued when the next timer or response is handled, so it runs
\* first; user input may still come in between.
MayAnswer(i) ==
    /\ i \in 1..Len(inflight)
    /\ api = "mock" => i = 1
    /\ settled = << >>

\* ----------------------------------------------------------------- gateway
\* mockApi.getAttendance (line 109): resolves with the array itself.
mockGetAttendance(mock) == [alias |-> TRUE, own |-> << >>]

\* realApi.getAttendance (lines 52-56): response.json() builds new objects.
realGetAttendance(table) ==
    [alias |-> FALSE,
     own |-> [k \in 1..Len(table) |-> [link |-> 0, rec |-> table[k]]]]

\* mockApi.markAttendance taking the owner from the session of the moment the
\* timer fires instead of from its argument.
mockMarkAttendanceForSession(mock, userId, t) ==
    LET today == DateOf(t)
        alreadyMarked == \E k \in 1..Len(mock) :
                             mock[k].userId = loggedInUser.id /\ mock[k].date = today
        newRecord == [id |-> t, userId |-> loggedInUser.id, date |-> today,
                      timestamp |-> t, status |-> "pending"]
    IN  [table |-> Append(mock, newRecord), ok |-> TRUE, msg |-> "",
         elem |-> [link |-> Len(mock) + 1, rec |-> NoRec],
         alreadyMarked |-> alreadyMarked]

\* mockApi.markAttendance (lines 111-129), the timer callback.  alreadyMarked
\* is computed and not acted upon; the record is pushed onto mockAttendance
\* and the promise resolves with that same object.
mockMarkAttendance(mock, userId, t) ==
    LET today == DateOf(t)
        alreadyMarked == \E k \in 1..Len(mock) :
                             mock[k].userId = userId /\ mock[k].date = today
        newRecord == [id |-> t, userId |-> userId, date |-> today,
                      timestamp |-> t, status |-> "pending"]
    IN  [table |-> Append(mock, newRecord), ok |-> TRUE, msg |-> "",
         elem |-> [link |-> Len(mock) + 1, rec |-> NoRec],
         alreadyMarked |-> alreadyMarked]

\* The service behind POST /attendance: "in a real API this would be a proper
\* rejection" (line 116); otherwise it stores and returns the created record.
ServerCreate(table, userId, t) ==
    LET today == DateOf(t)
        alreadyMarked == \E k \in 1..Len(table) :
                             table[k].userId = userId /\ table[k].date = today
        newRecord == [id |-> Len(table) + 1, userId |-> userId, date |-> today,
                      timestamp |-> t, status |-> "pending"]
    IN  IF alreadyMarked
        THEN [table |-> table, ok |-> FALSE, rec |-> NoRec, alreadyMarked |-> TRUE]
        ELSE [table |-> Append(table, newRecord), ok |-> TRUE, rec |-> newRecord,
              alreadyMarked |-> FALSE]

\* realApi.markAttendance (lines 62-73): a response that is not ok (or a
\* request that never reached the service, reached == FALSE) throws.
realMarkAttendance(table, userId, t, reached) ==
    LET r == ServerCreate(table, userId, t)
    IN  IF reached /\ r.ok
        THEN [table |-> r.table, ok |-> TRUE, msg |-> "",
              elem |-> [link |-> 0, rec |-> r.rec], alreadyMarked |-> FALSE]
        ELSE [table |-> table, ok |-> FALSE, msg |-> MarkFailedMsg,
              elem |-> NoElem, alreadyMarked |-> reached /\ r.alreadyMarked]

\* Array.prototype.find by id: the first position holding it, 0 if none.
FindIndex(table, attId) ==
    IF \E k \in 1..Len(table) : table[k].id = attId
    THEN CHOOSE k \in 1..Len(table) :
             /\ table[k].id = attId
             /\ \A j \in 1..Len(table) : table[j].id = attId => k <= j
    ELSE 0

\* mockApi.updateAttendanceStatus without its else branch: an id that no
\* record has resolves as well, with an empty object.
mockUpdateAttendanceStatusNoReject(mock, attId, status) ==
    LET k == FindIndex(mock, attId)
    IN  IF k > 0
        THEN LET table == [mock EXCEPT ![k].status = status]
             IN  [table |-> table, ok |-> TRUE, msg |-> "",
                  elem |-> [link |-> 0, rec |-> table[k]]]
        ELSE [table |-> mock, ok |-> TRUE, msg |-> "", elem |-> NoElem]

\* mockApi.updateAttendanceStatus (lines 130-140), the timer callback: the
\* record object is changed in place and a spread copy is resolved.
mockUpdateAttendanceStatus(mock, attId, status) ==
    LET k == FindIndex(mock, attId)
    IN  IF k > 0
        THEN LET table == [mock EXCEPT ![k].status = status]
             IN  [table |-> table, ok |-> TRUE, msg |-> "",
                  elem |-> [link |-> 0, rec |-> table[k]]]
        ELSE [table |-> mock, ok |-> FALSE, msg |-> RecordNotFoundMsg,
              elem |-> NoElem]

\* The service behind PUT /attendance/{id}: stores the status and returns the
\* updated record; an unknown id is answered with a response that is not ok.
ServerUpdateStatus(table, attId, status) ==
    LET k == FindIndex(table, attId)
    IN  IF k > 0
        THEN [table |-> [table EXCEPT ![k].status = status], ok |-> TRUE,
              rec |-> [table[k] EXCEPT !.status = status]]
        ELSE [table |-> table, ok |-> FALSE, rec |-> NoRec]

\* realApi.updateAttendanceStatus (lines 74-85).
realUpdateAttendanceStatus(table, attId, status, reached) ==
    LET r == ServerUpdateStatus(table, attId, status)
    IN  IF reached /\ r.ok
        THEN [table |-> r.table, ok |-> TRUE, msg |-> "",
              elem |-> [link |-> 0, rec |-> r.rec]]
        ELSE [table |-> table, ok |-> FALSE, msg |-> UpdateFailedMsg,
              elem |-> NoElem]

\* Outcomes of a request: mockApi always answers; a fetch may fail.
Reached == IF api = "mock" THEN {TRUE} ELSE {TRUE, FALSE}
FetchOutcomes == IF api = "mock" THEN {"ok"} ELSE {"ok", "TypeError", "Error"}

\* ------------------------------------------------------------------ engine
\* markAttendance appending whatever the call returned, also after a failure.
markAttendanceOptimistic(att, mock, c) ==
    [alias |-> FALSE, own |-> Append(ArrOf(att, mock), c.elem)]

\* markAttendance keeping the result only while its caller still holds the
\* session (a continuation tied to the mounted view).
markAttendanceWhileMounted(att, mock, c) ==
    IF c.ok /\ loggedInUser.id = c.userId
    THEN [alias |-> FALSE, own |-> Append(ArrOf(att, mock), c.elem)]
    ELSE att

\* AppProvider.markAttendance (lines 213-221): the attendance state after the
\* awaited call settled as c.
markAttendance(att, mock, c) ==
    IF c.ok
    THEN [alias |-> FALSE, own |-> Append(ArrOf(att, mock), c.elem)]
    ELSE att

\* The alert markAttendance raises (lines 217, 219).
markAttendanceAlert(c) == IF c.ok THEN SuccessMsg ELSE c.msg

\* updateAttendanceStatus writing the requested status before the gateway's
\* answer is known.
updateAttendanceStatusOptimistic(att, mock, c) ==
    LET arr == ArrOf(att, mock)
    IN  [alias |-> FALSE,
         own |-> [k \in 1..Len(arr) |->
                     IF Deref(arr[k], mock).id = c.attId
                     THEN [link |-> 0,
                           rec |-> [Deref(arr[k], mock) EXCEPT !.status = c.status]]
                     ELSE arr[k]]]

\* AppProvider.updateAttendanceStatus (lines 223-230): the attendance state
\* after the awaited call settled as c.
updateAttendanceStatus(att, mock, c) ==
    IF c.ok
    THEN LET arr == ArrOf(att, mock)
         IN  [alias |-> FALSE,
              own |-> [k \in 1..Len(arr) |->
                          IF Deref(arr[k], mock).id = c.attId THEN c.elem ELSE arr[k]]]
    ELSE att

\* The alert updateAttendanceStatus raises (line 228).
updateAttendanceStatusAlert(c) == IF c.ok THEN "" ELSE c.msg

\* refetchInitialData, the catch block (lines 195-203).
RefetchErrorMessage(kind) ==
    IF kind = "TypeError" THEN FetchTypeErrorMsg ELSE FetchErrorMsg

\* handleLogin without the status test.
handleLoginAcceptsAnyUser(user) == user # NoUser

\* LoginScreen.handleLogin (line 296): the condition under which it logs in.
handleLoginAccepts(user) == user # NoUser /\ user.status = "active"

\* ------------------------------------------------------------------ actions
Init ==
    /\ api \in {"mock", "real"}
    /\ now = StartNow
    /\ mockAttendance = mockAttendanceSeed
    /\ users = << >>
    /\ attendance = NoData
    /\ inventory = << >>
    /\ loggedInUser = NoUser
    /\ loading = TRUE
    /\ error = ""
    /\ selectedUserId = ""
    /\ page = "dashboard"
    /\ view = NoView
    \* The mount effect (lines 209-211) has run refetchInitialData: once, or
    \* twice under React.StrictMode (line 600) in a development build.
    /\ \E n \in {1, 2} : inflight = [k \in 1..n |-> Call("load", "", 0, "", NoDay)]
    /\ settled = << >>
    /\ issued = 0
    /\ lastAlert = ""

\* Time passes.
Tick ==
    /\ now < StartNow + MaxTicks
    /\ now' = now + 1
    /\ lastAlert' = ""
    /\ UNCHANGED <<api, mockAttendance, users, attendance, inventory, loggedInUser,
                   loading, error, selectedUserId, page, view, inflight, settled,
                   issued>>

\* The three reads of refetchInitialData (lines 187-191) settle.
LoadGateway(i) ==
    /\ MayAnswer(i)
    /\ inflight[i].op = "load"
    /\ \E outcome \in FetchOutcomes :
          settled' = Append(settled,
              Settle(inflight[i], outcome = "ok", outcome, NoElem,
                     IF outcome # "ok" THEN NoData
                     ELSE IF api = "mock" THEN mockGetAttendance(mockAttendance)
                     ELSE realGetAttendance(mockAttendance),
                     FALSE))
    /\ inflight' = RemoveAt(inflight, i)
    /\ lastAlert' = ""
    /\ UNCHANGED <<api, now, mockAttendance, users, attendance, inventory,
                   loggedInUser, loading, error, selectedUserId, page, view,
                   issued>>

\* refetchInitialData continues after the await (lines 192-206).
LoadApply ==
    /\ settled # << >>
    /\ Head(settled).op = "load"
    /\ LET c == Head(settled)
           sameUsers == ~c.ok \/ (api = "mock" /\ users # << >>)
           error1 == IF c.ok THEN error ELSE RefetchErrorMessage(c.msg)
           mainWas == MainMounted(loading, error, loggedInUser)
           mainIs == MainMounted(FALSE, error1, loggedInUser)
           loginWas == LoginMounted(loading, error, loggedInUser)
           loginIs == LoginMounted(FALSE, error1, loggedInUser)
           page1 == IF mainWas /\ mainIs THEN page ELSE "dashboard"
       IN  /\ users' = IF c.ok THEN mockUsers ELSE users
           /\ attendance' = IF c.ok THEN c.data ELSE attendance
           /\ inventory' = IF c.ok THEN mockInventory ELSE inventory
           /\ error' = error1
           /\ loading' = FALSE
           /\ page' = page1
           \* LoginScreen's effect (lines 288-292) runs on mount and when the
           \* users array is replaced.
           /\ selectedUserId' =
                 IF ~loginIs THEN ""
                 ELSE IF loginWas /\ sameUsers THEN selectedUserId
                 ELSE FirstActiveId(users')
           /\ view' = Render(FALSE, error1, loggedInUser, page1, attendance',
                             mockAttendance, now)
    /\ settled' = Tail(settled)
    /\ lastAlert' = ""
    /\ UNCHANGED <<api, now, mockAttendance, loggedInUser, inflight, issued>>

\* ErrorScreen's Retry button (lines 257, 278) calls refetchInitialData.
Retry ==
    /\ ~loading
    /\ error # ""
    /\ loading' = TRUE
    /\ error' = ""
    /\ inflight' = Append(inflight, Call("load", "", 0, "", NoDay))
    /\ page' = "dashboard"
    /\ selectedUserId' = ""
    /\ view' = NoView
    /\ lastAlert' = ""
    /\ UNCHANGED <<api, now, mockAttendance, users, attendance, inventory,
                   loggedInUser, settled, issued>>

\* The select's onChange (line 321).
SelectUser(id) ==
    /\ LoginMounted(loading, error, loggedInUser)
    /\ users # << >>
    /\ id # selectedUserId
    /\ selectedUserId' = id
    /\ lastAlert' = ""
    /\ UNCHANGED <<api, now, mockAttendance, users, attendance, inventory,
                   loggedInUser, loading, error, page, view, inflight, settled,
                   issued>>

\* LoginScreen.handleLogin (lines 294-301).
HandleLogin ==
    /\ LoginMounted(loading, error, loggedInUser)
    /\ users # << >>
    /\ LET user == FindUser(users, selectedUserId)
       IN  IF handleLoginAccepts(user)
           THEN /\ loggedInUser' = user
                /\ selectedUserId' = ""
                /\ lastAlert' = ""
           ELSE /\ lastAlert' = LoginFailedMsg
                /\ UNCHANGED <<loggedInUser, selectedUserId>>
    /\ UNCHANGED <<api, now, mockAttendance, users, attendance, inventory,
                   loading, error, page, view, inflight, settled, issued>>

\* handleLogout dropping the loaded attendance along with the session.
HandleLogoutClearingData ==
    /\ MainMounted(loading, error, loggedInUser)
    /\ loggedInUser' = NoUser
    /\ attendance' = NoData
    /\ page' = "dashboard"
    /\ selectedUserId' = FirstActiveId(users)
    /\ view' = NoView
    /\ lastAlert' = ""
    /\ UNCHANGED <<api, now, mockAttendance, users, inventory,
                   loading, error, inflight, settled, issued>>

\* MainLayout.handleLogout (lines 346-348); LoginScreen mounts again.
HandleLogout ==
    /\ MainMounted(loading, error, loggedInUser)
    /\ loggedInUser' = NoUser
    /\ page' = "dashboard"
    /\ selectedUserId' = FirstActiveId(users)
    /\ view' = NoView
    /\ lastAlert' = ""
    /\ UNCHANGED <<api, now, mockAttendance, users, attendance, inventory,
                   loading, error, inflight, settled, issued>>

\* A Sidebar link (line 389).
SetPage(p) ==
    /\ MainMounted(loading, error, loggedInUser)
    /\ p \in NavItems(loggedInUser)
    /\ p # page
    /\ page' = p
    /\ view' = Render(loading, error, loggedInUser, p, attendance, mockAttendance, now)
    /\ lastAlert' = ""
    /\ UNCHANGED <<api, now, mockAttendance, users, attendance, inventory,
                   loggedInUser, loading, error, selectedUserId, inflight, settled,
                   issued>>

\* "Mark Me Present" (line 489): markAttendance(loggedInUser) starts.
MarkClick ==
    /\ MainMounted(loading, error, loggedInUser)
    /\ view.markBtn
    /\ issued < MaxCalls
    /\ inflight' = Append(inflight, Call("mark", loggedInUser.id, 0, "", view.today))
    /\ issued' = issued + 1
    /\ lastAlert' = ""
    /\ UNCHANGED <<api, now, mockAttendance, users, attendance, inventory,
                   loggedInUser, loading, error, selectedUserId, page, view,
                   settled>>

\* "Approve" / "Reject" (lines 524-525): updateAttendanceStatus starts.
ReviewClick(attId, decision) ==
    /\ MainMounted(loading, error, loggedInUser)
    /\ attId \in view.reviewBtns
    /\ issued < MaxCalls
    /\ inflight' = Append(inflight, Call("update", loggedInUser.id, attId, decision, NoDay))
    /\ issued' = issued + 1
    /\ lastAlert' = ""
    /\ UNCHANGED <<api, now, mockAttendance, users, attendance, inventory,
                   loggedInUser, loading, error, selectedUserId, page, view,
                   settled>>

\* api.markAttendance settles.
MarkGateway(i) ==
    /\ MayAnswer(i)
    /\ inflight[i].op = "mark"
    /\ \E reached \in Reached :
          LET c == inflight[i]
              r == IF api = "mock"
                   THEN mockMarkAttendance(mockAttendance, c.userId, now)
                   ELSE realMarkAttendance(mockAttendance, c.userId, now, reached)
          IN  /\ mockAttendance' = r.table
              /\ settled' = Append(settled,
                     Settle(c, r.ok, r.msg, r.elem, NoData, r.alreadyMarked))
    /\ inflight' = RemoveAt(inflight, i)
    /\ lastAlert' = ""
    /\ UNCHANGED <<api, now, users, attendance, inventory, loggedInUser, loading,
                   error, selectedUserId, page, view, issued>>

\* markAttendance continues after the await (lines 216-220).
MarkApply ==
    /\ settled # << >>
    /\ Head(settled).op = "mark"
    /\ LET c == Head(settled)
       IN  /\ attendance' = markAttendance(attendance, mockAttendance, c)
           /\ lastAlert' = markAttendanceAlert(c)
           \* setAttendance makes React render again; alert() alone does not.
           /\ view' = IF c.ok
                      THEN Render(loading, error, loggedInUser, page, attendance',
                                  mockAttendance, now)
                      ELSE view
    /\ settled' = Tail(settled)
    /\ UNCHANGED <<api, now, mockAttendance, users, inventory, loggedInUser,
                   loading, error, selectedUserId, page, inflight, issued>>

\* api.updateAttendanceStatus settles.
UpdateGateway(i) ==
    /\ MayAnswer(i)
    /\ inflight[i].op = "update"
    /\ \E reached \in Reached :
          LET c == inflight[i]
              r == IF api = "mock"
                   THEN mockUpdateAttendanceStatus(mockAttendance, c.attId, c.status)
                   ELSE realUpdateAttendanceStatus(mockAttendance, c.attId, c.status,
                                                   reached)
          IN  /\ mockAttendance' = r.table
              /\ settled' = Append(settled,
                     Settle(c, r.ok, r.msg, r.elem, NoData, FALSE))
    /\ inflight' = RemoveAt(inflight, i)
    /\ lastAlert' = ""
    /\ UNCHANGED <<api, now, users, attendance, inventory, loggedInUser, loading,
                   error, selectedUserId, page, view, issued>>

\* updateAttendanceStatus continues after the await (lines 226-228).
UpdateApply ==
    /\ settled # << >>
    /\ Head(settled).op = "update"
    /\ LET c == Head(settled)
       IN  /\ attendance' = updateAttendanceStatus(attendance, mockAttendance, c)
           /\ lastAlert' = updateAttendanceStatusAlert(c)
           \* setAttendance makes React render again; alert() alone does not.
           /\ view' = IF c.ok
                      THEN Render(loading, error, loggedInUser, page, attendance',
                                  mockAttendance, now)
                      ELSE view
    /\ settled' = Tail(settled)
    /\ UNCHANGED <<api, now, mockAttendance, users, inventory, loggedInUser,
                   loading, error, selectedUserId, page, inflight, issued>>

Next ==
    \/ Tick
    \/ \E i \in 1..Len(inflight) : LoadGateway(i)
    \/ LoadApply
    \/ Retry
    \/ \E id \in SelectableIds : SelectUser(id)
    \/ HandleLogin
    \/ HandleLogout
    \/ \E p \in {"dashboard", "employees", "attendance", "inventory", "wip"} : SetPage(p)
    \/ MarkClick
    \/ \E attId \in view.reviewBtns, decision \in {"approved", "rejected"} :
          ReviewClick(attId, decision)
    \/ \E i \in 1..Len(inflight) : MarkGateway(i)
    \/ MarkApply
    \/ \E i \in 1..Len(inflight) : UpdateGateway(i)
    \/ UpdateApply

Spec == Init /\ [][Next]_vars

\* A timer set by mockApi fires and a fetch settles (it resolves or rejects);
\* the continuation of a settled promise is run by the event loop.
Fairness ==
    /\ WF_vars(\E i \in 1..Len(inflight) : LoadGateway(i))
    /\ WF_vars(\E i \in 1..Len(inflight) : MarkGateway(i))
    /\ WF_vars(\E i \in 1..Len(inflight) : UpdateGateway(i))
    /\ WF_vars(LoadApply)
    /\ WF_vars(MarkApply)
    /\ WF_vars(UpdateApply)

LiveSpec == Spec /\ Fairness

\* Ids handed to a direct call: 2 is the pending seed record, 0 and 3 are the
\* ids of no record.
DirectIds == {0, 2, 3}

\* updateAttendanceStatus is handed out through the context (lines 157, 241):
\* a consumer calls it with an id of its own choice.
DirectReview(attId, decision) ==
    /\ MainMounted(loading, error, loggedInUser)
    /\ issued < MaxCalls
    /\ inflight' = Append(inflight, Call("update", loggedInUser.id, attId, decision, NoDay))
    /\ issued' = issued + 1
    /\ lastAlert' = ""
    /\ UNCHANGED <<api, now, mockAttendance, users, attendance, inventory,
                   loggedInUser, loading, error, selectedUserId, page, view,
                   settled>>

\* The loads, a login and reviews called directly with any id.
NextDirect ==
    \/ \E i \in 1..Len(inflight) : LoadGateway(i)
    \/ LoadApply
    \/ Retry
    \/ HandleLogin
    \/ \E attId \in DirectIds, decision \in {"approved", "rejected"} :
          DirectReview(attId, decision)
    \/ \E i \in 1..Len(inflight) : UpdateGateway(i)
    \/ UpdateApply

SpecDirect == Init /\ [][NextDirect]_vars

\* ------------------------------------------------------------- properties
Decisions == {"approved", "rejected"}

\* Steps of the two lifecycle operations.
MarkGatewayStep == \E i \in 1..Len(inflight) : MarkGateway(i)
UpdateGatewayStep == \E i \in 1..Len(inflight) : UpdateGateway(i)
ReviewClickStep ==
    \E attId \in view.reviewBtns, decision \in Decisions : ReviewClick(attId, decision)

\* The call a gateway step has just settled.
JustSettled == settled'[Len(settled')]

OwnerMarkedOn(store, userId, day) ==
    \E k \in 1..Len(store) : store[k].userId = userId /\ store[k].date = day

\* C1: the Store never holds two records with the same owner and the same
\* calendar date.
C1_OnePerOwnerAndDate ==
    \A i, j \in 1..Len(Store) :
        i < j => ~(Store[i].userId = Store[j].userId /\ Store[i].date = Store[j].date)

\* C2: a markPresent that reaches the gateway while its owner already has a
\* record dated today in the Store is rejected: the gateway creates nothing,
\* the Store stays as it is, and the caller is not told of a success.
C2_AlreadyMarkedIsRejected ==
    [][ /\ \A i \in 1..Len(inflight) :
             (MarkGateway(i) /\ OwnerMarkedOn(Store, inflight[i].userId, DateOf(now)))
                => /\ ~JustSettled.ok
                   /\ mockAttendance' = mockAttendance
                   /\ Store' = Store
        /\ (MarkApply /\ Head(settled).alreadyMarked)
              => (lastAlert' # "" /\ lastAlert' # SuccessMsg /\ Store' = Store)
      ]_vars

\* C3: a record whose status has left pending is never changed by a review,
\* neither when the gateway handles the review nor when the engine applies it.
C3_DecidedStatusIsFinal ==
    [][ (UpdateGatewayStep \/ UpdateApply)
           => /\ Len(Store') = Len(Store)
              /\ \A k \in 1..Len(Store) :
                    Store[k].status # "pending" => Store'[k] = Store[k]
      ]_vars

C5_StoreChangesOnlyOnApply ==
    [][ (MarkClick \/ ReviewClickStep \/ MarkGatewayStep \/ UpdateGatewayStep)
           => Store' = Store
      ]_vars

\* C6: applying a markPresent the gateway confirmed adds its record to a Store
\* that did not hold it yet: the Store afterwards is the Store before followed
\* by that one record, owned by the caller, dated the day of its creation and
\* pending.
C6_MarkAppendsExactlyOne ==
    [][ (MarkApply /\ Head(settled).ok)
           => LET r == Deref(Head(settled).elem, mockAttendance)
              IN  /\ Store' = Append(Store, r)
                  /\ \A k \in 1..Len(Store) : Store[k] # r
                  /\ r.userId = Head(settled).userId
                  /\ r.date = DateOf(r.timestamp)
                  /\ r.status = "pending"
      ]_vars

\* C7: when the gateway's create call fails, neither the failing gateway step
\* nor the engine's handling of it changes the Store, and the caller is shown
\* the gateway's error message.
C7_MarkFailureLeavesStore ==
    [][ /\ \A i \in 1..Len(inflight) :
             (MarkGateway(i) /\ ~JustSettled.ok) => Store' = Store
        /\ (MarkApply /\ ~Head(settled).ok)
              => /\ Store' = Store
                 /\ lastAlert' = Head(settled).msg
                 /\ lastAlert' \notin {"", SuccessMsg}
      ]_vars

C7_Witness == lastAlert = MarkFailedMsg

\* C8: when the gateway's updateStatus call fails, neither the failing gateway
\* step nor the engine's handling of it changes any record of the Store, and
\* the caller is shown the gateway's error message.
C8_UpdateFailureLeavesStore ==
    [][ /\ \A i \in 1..Len(inflight) :
             (UpdateGateway(i) /\ ~JustSettled.ok) => Store' = Store
        /\ (UpdateApply /\ ~Head(settled).ok)
              => /\ Store' = Store
                 /\ lastAlert' = Head(settled).msg
                 /\ lastAlert' # ""
      ]_vars

C8_Witness == lastAlert = UpdateFailedMsg

\* The error kind of section 7 an alert text stands for.  handleLogin has one
\* text for both of its failures.
ErrorKind(msg) ==
    IF msg = LoginFailedMsg THEN "NotFoundOrInactive"
    ELSE IF msg = RecordNotFoundMsg THEN "NotFound"
    ELSE IF msg \in {MarkFailedMsg, UpdateFailedMsg} THEN "GatewayError"
    ELSE "none"

C10_SessionHolderIsActive ==
    \/ loggedInUser = NoUser
    \/ /\ loggedInUser.status = "active"
       /\ FindUser(users, loggedInUser.id).status = "active"

\* A session held while a reload has come back (here: failed).
C10_Witness ==
    /\ loggedInUser # NoUser
    /\ ~loading
    /\ error # ""

\* The call a click has just issued.
JustIssued == inflight'[Len(inflight')]

\* C11: a markPresent call carries the id of the identity holding the session
\* at the click, and every record the gateway creates for it and the engine
\* adds to the Store for it is owned by that identity, whoever holds the
\* session (or nobody) when the call resolves.
C11_OwnerIsInvoker ==
    [][ /\ MarkClick
              => /\ Len(inflight') = Len(inflight) + 1
                 /\ JustIssued.op = "mark"
                 /\ JustIssued.userId = loggedInUser.id
        /\ \A i \in 1..Len(inflight) :
              MarkGateway(i)
                 => /\ \A k \in Len(mockAttendance) + 1 .. Len(mockAttendance') :
                          mockAttendance'[k].userId = inflight[i].userId
                    /\ JustSettled.ok
                          => Deref(JustSettled.elem, mockAttendance').userId
                                = inflight[i].userId
        /\ MarkApply
              => \A k \in Len(Store) + 1 .. Len(Store') :
                    Store'[k].userId = Head(settled).userId
      ]_vars

\* A record was created for its invoker after the session had passed on.
C11_Witness ==
    /\ settled # << >>
    /\ Head(settled).op = "mark"
    /\ Head(settled).ok
    /\ loggedInUser.id # Head(settled).userId
    /\ Deref(Head(settled).elem, mockAttendance).userId = Head(settled).userId

\* A write the gateway has resolved successfully and the engine has not
\* applied yet.
ResolvedWrite ==
    /\ settled # << >>
    /\ Head(settled).op \in {"mark", "update"}
    /\ Head(settled).ok

\* The step applying a resolved write leaves its result in the Store.
ApplyReflectsWrite ==
    /\ (MarkApply /\ Head(settled).ok)
          => \E k \in 1..Len(Store') :
                Store'[k] = Deref(Head(settled).elem, mockAttendance)
    /\ (UpdateApply /\ Head(settled).ok)
          => /\ \E k \in 1..Len(Store') : Store'[k].id = Head(settled).attId
             /\ \A k \in 1..Len(Store') :
                   Store'[k].id = Head(settled).attId
                      => Store'[k] = Head(settled).elem.rec

\* A resolved write can be applied at once, and it stays first in line until
\* the engine applies it.
ResolvedWriteWaits ==
    ResolvedWrite
       => /\ ENABLED (MarkApply \/ UpdateApply)
          /\ \/ MarkApply
             \/ UpdateApply
             \/ (settled' # << >> /\ Head(settled') = Head(settled))

C13_CapabilitiesFollowRole ==
    /\ page \in {"employees", "inventory"}
          => MainMounted(loading, error, loggedInUser) /\ loggedInUser.role = "admin"
    /\ view.reviewBtns # {}
          => MainMounted(loading, error, loggedInUser) /\ loggedInUser.role = "admin"
    /\ view.markBtn
          => MainMounted(loading, error, loggedInUser) /\ loggedInUser.role = "employee"
    /\ MainMounted(loading, error, loggedInUser) => page \in NavItems(loggedInUser)

\* An employee on the attendance page with the mark button, after an admin's
\* session in which a record was reviewed.
C13_Witness ==
    /\ loggedInUser.role = "employee"
    /\ page = "attendance"
    /\ view.markBtn
    /\ \E k \in 1..Len(Store) : Store[k].id = 2 /\ Store[k].status # "pending"

\* C14: a review whose id no record has when the gateway handles it fails:
\* the gateway changes nothing and rejects, with 'Record not found' under
\* mockApi, and the engine shows the message and leaves the Store as it is.
C14_UnknownIdFails ==
    [][ /\ \A i \in 1..Len(inflight) :
             (UpdateGateway(i) /\ FindIndex(mockAttendance, inflight[i].attId) = 0)
                => /\ ~JustSettled.ok
                   /\ mockAttendance' = mockAttendance
                   /\ Store' = Store
                   /\ api = "mock" => ErrorKind(JustSettled.msg) = "NotFound"
        /\ (UpdateApply /\ ~Head(settled).ok)
              => /\ Store' = Store
                 /\ attendance' = attendance
                 /\ lastAlert' = Head(settled).msg
                 /\ ErrorKind(lastAlert') \in {"NotFound", "GatewayError"}
      ]_vars

C14_Witness ==
    /\ lastAlert = RecordNotFoundMsg
    /\ Store = mockAttendanceSeed

\* C15: the records of the Store have pairwise distinct ids, and so have the
\* records the gateway holds.
C15_DistinctIds ==
    /\ \A i, j \in 1..Len(Store) : i < j => Store[i].id # Store[j].id
    /\ \A i, j \in 1..Len(mockAttendance) :
          i < j => mockAttendance[i].id # mockAttendance[j].id

\* Between two Stores: the same number of records in the same order, every
\* record as it was except that a record with the given id may have got the
\* given status.
OnlyStatusOf(before, after, attId, status) ==
    /\ Len(after) = Len(before)
    /\ \A k \in 1..Len(before) :
          \/ after[k] = before[k]
          \/ /\ before[k].id = attId
             /\ after[k] = [before[k] EXCEPT !.status = status]

\* C16: a successful review changes nothing but the status of the record
\* with the given id, neither when the gateway handles it nor when the engine
\* applies it: id, owner, date and timestamp of that record, every other
\* record, and the number and order of the records stay.
C16_ReviewChangesOnlyStatus ==
    [][ /\ \A i \in 1..Len(inflight) :
             (UpdateGateway(i) /\ JustSettled.ok)
                => /\ OnlyStatusOf(Store, Store', inflight[i].attId, inflight[i].status)
                   /\ OnlyStatusOf(mockAttendance, mockAttendance',
                                   inflight[i].attId, inflight[i].status)
        /\ (UpdateApply /\ Head(settled).ok)
              => OnlyStatusOf(Store, Store', Head(settled).attId, Head(settled).status)
      ]_vars

\* The offsets from UTC, in clock instants, a client's time zone may have,
\* and the calendar day of an instant on the client's local clock.
TzOffsets == 0 .. TicksPerDay - 1
LocalDateOf(t, tz) == (t + tz) \div TicksPerDay

\* C17: a record the gateway creates is stamped with the instant of its
\* creation and dated the calendar day of that instant at the client's local
\* day boundary, whatever the client's time zone, and that day is the day of
\* the view whose duplicate check let the call through.
C17_DateIsLocalDayOfCreation ==
    [][ \A i \in 1..Len(inflight) :
          (MarkGateway(i) /\ JustSettled.ok)
             => LET r == Deref(JustSettled.elem, mockAttendance')
                IN  /\ r.timestamp = now
                    /\ \A tz \in TzOffsets : r.date = LocalDateOf(r.timestamp, tz)
                    /\ r.date = inflight[i].today
      ]_vars

\* C18: logout can be taken whenever the main layout is shown (it has no
\* failing path); it empties the session and leaves the Store, the gateway's
\* records, the identities, the inventory and the calls under way as they
\* were.
C18_LogoutOnlyClearsSession ==
    [][ /\ MainMounted(loading, error, loggedInUser) => ENABLED HandleLogout
        /\ (loggedInUser # NoUser /\ loggedInUser' = NoUser)
              => /\ Store' = Store
                 /\ attendance' = attendance
                 /\ mockAttendance' = mockAttendance
                 /\ users' = users
                 /\ inventory' = inventory
                 /\ inflight' = inflight
                 /\ settled' = settled
                 /\ loading' = loading /\ error' = error
        /\ HandleLogout => (loggedInUser # NoUser /\ loggedInUser' = NoUser)
      ]_vars

\* Logged out with a record in the Store that was created during the session.
C18_Witness ==
    /\ LoginMounted(loading, error, loggedInUser)
    /\ selectedUserId = FirstActiveId(users)
    /\ \E k \in 1..Len(Store) : Store[k].id \notin {1, 2}

\* Steps the user takes on the login screen and in the main layout.
UserStep ==
    \/ \E id \in SelectableIds : SelectUser(id)
    \/ HandleLogin
    \/ HandleLogout
    \/ \E p \in {"dashboard", "employees", "attendance", "inventory", "wip"} : SetPage(p)
    \/ MarkClick
    \/ ReviewClickStep

\* What a load leaves behind when it ends, and where the user can act.
LoadDiscipline ==
    /\ LoadApply
          => /\ loading' = FALSE
             /\ (error' # "") <=> ~Head(settled).ok
             /\ ~Head(settled).ok
                   => /\ users' = users
                      /\ attendance' = attendance
                      /\ inventory' = inventory
                      /\ Store' = Store
    /\ Retry => (loading' /\ error' = "")
    /\ UserStep => (~loading /\ error = "")

\* C19: every load ends with loading = false; when it ends error is set iff
\* that load failed, and a failed load leaves users, attendance and inventory
\* as they were; starting a load sets loading and clears error; the user can
\* log in, log out, navigate, mark and review only while loading is false and
\* error is empty; and loading never stays true for ever.
C19_LoadEndsCleanly ==
    /\ [][LoadDiscipline]_vars
    /\ loading ~> ~loading

\* How often a record occurs in a sequence.
CountOf(seq, r) == Cardinality({k \in 1..Len(seq) : seq[k] = r})

\* rows holds exactly the records of store, newest first.
ListsNewestFirst(rows, store) ==
    /\ Len(rows) = Len(store)
    /\ \A k \in 1..Len(store) : CountOf(rows, store[k]) = CountOf(store, store[k])
    /\ \A i, j \in 1..Len(rows) : i < j => rows[i].timestamp >= rows[j].timestamp

SetPageStep ==
    \E p \in {"dashboard", "employees", "attendance", "inventory", "wip"} : SetPage(p)

\* C20: every render of the attendance page for an admin lists exactly the
\* records of the Store, newest first, and a render that follows no state
\* update (opening the page) leaves the Store, its order and the gateway's
\* records as they were.
C20_AdminViewSortedStoreUntouched ==
    [][ /\ ( /\ \/ LoadApply
                 \/ SetPageStep
                 \/ (MarkApply /\ Head(settled).ok)
                 \/ (UpdateApply /\ Head(settled).ok)
              /\ MainMounted(loading', error', loggedInUser')
              /\ loggedInUser'.role = "admin"
              /\ page' = "attendance" )
              => /\ ListsNewestFirst(view'.rows, Store')
                 /\ view'.reviewBtns = ReviewButtons(Store')
        /\ SetPageStep
              => /\ Store' = Store
                 /\ attendance' = attendance
                 /\ mockAttendance' = mockAttendance
      ]_vars

\* An admin's table of at least three rows whose order is not the Store's.
C20_Witness ==
    /\ loggedInUser.role = "admin"
    /\ page = "attendance"
    /\ Len(view.rows) >= 3
    /\ Len(view.rows) = Len(Store)
    /\ view.rows # Store

====
